---- MODULE Spec2Model ----
(***************************************************************************)
(* Pass search of orbit_predictor: the bracketed LocationPredictor         *)
(* (predictors/pass_iterators.py), driven by CartesianPredictor            *)
(* passes_over / get_next_pass (predictors/base.py).                       *)
(*                                                                         *)
(* Time is counted in ticks of the datetime resolution; elevations are     *)
(* held in fixed-point angular units (UnitsPerDeg units to the degree).    *)
(* The propagator and the location are abstracted to the elevation they    *)
(* produce: a saw-tooth profile with one trough and one peak per orbit,    *)
(* whose peak heights, rise time and trough depth are inputs.              *)
(***************************************************************************)
EXTENDS Integers, Sequences, FiniteSets, TLC

\* ------------------------------------------------------------------ bounds
\* Ticks in one orbit (2*pi / mean_motion, in ticks).
Period == 100
\* The iteration is followed while its cursor is at most MaxTime.
MaxTime == 260
\* Fixed-point scale of the angles.
UnitsPerDeg == 10

\* ------------------------------------------------------------------ inputs
\* "TLE" is HighAccuracyTLEPredictor; "Keplerian" is KeplerianPredictor and
\* its subclass J2Predictor.
PredictorKinds == {"TLE", "Keplerian"}
HeightSet == {-20, 40, 500}
NumHeights == 2
RiseDurs == {20, 50, 80}
Depths == {100, 600}
StartDates == {0, 23, 40, 65, 90}
LimitOffsets == {10, 170}
MaxElevationGts == {0, 5}
AosAtDgs == {-8, 0, 5}
Tolerances == {1, 3}
Callers == {"passes_over", "get_next_pass"}

VARIABLES
    kind,             \* class of the predictor backing the search
    args,             \* the max_elevation_gt and aos_at_dg given by the caller (degrees)
    heights,          \* elevation profile: peak height of orbit k is heights[k % NumHeights + 1]
    riseDur,          \* elevation profile: ticks from trough to peak
    depth,            \* elevation profile: depth of the trough below the horizon
    start_date,       \* LocationPredictor.start_date
    limit_date,       \* LocationPredictor.limit_date: {} is None, {t} a date
    max_elevation_gt, \* LocationPredictor.max_elevation_gt (units)
    aos_at,           \* LocationPredictor.aos_at (units)
    tolerance,        \* LocationPredictor.tolerance (ticks)
    caller,           \* who consumes the iterator
    pc,               \* position of the generator iter_passes
    current_date,     \* the cursor of iter_passes
    passes,           \* the passes yielded so far, in order
    last,             \* the last AccuratePredictedPass refined, <<>> before the first
    error,            \* the exception that ended the generator, "" if none
    logged,           \* number of logger.error records emitted
    result,           \* outcome of get_next_pass
    visited,          \* cursors the advance in progress has already searched from
    probes,           \* the probe points tested by the last nearest-phase search, in order
    when_utc,         \* stepping TLEPredictor: date the next _get_next_pass starts from
    pass_,            \* stepping TLEPredictor: pass_ of get_next_pass, <<>> before the first
    next_pass,        \* stepping TLEPredictor: outcome of get_next_pass
    tles,             \* MemoryTLESource.tles: sate_id -> set of <<epoch, tle>>, in iteration order
    got,              \* outcome of the last TLESource.get_tle
    tle,              \* HighAccuracyTLEPredictor.tle once reified: {} before, {TLE} after
    positions,        \* the position queries answered: predictor, when_utc, TLE lines propagated
    fetched,          \* outcome of the last WSTLESource._get_tle, with the answer of the endpoint
    norad,            \* outcome of NoradTLESource.from_url, with the answer of the endpoint
    given,            \* the keyword arguments of J2Predictor.sun_synchronous ({} is None)
    predictor,        \* outcome of J2Predictor.sun_synchronous
    M,                \* M_to_E: mean anomaly
    ecc,              \* M_to_E: eccentricity
    E,                \* M_to_E: the iterate E
    iterations,       \* M_to_E: turns of the while loop completed
    solver_pc,        \* M_to_E: "loop" while iterating, then "return" or "raise"
    passing,          \* outcome of the last LocationPredictor.is_passing
    peaks_idx,        \* SmartLocationPredictor.iter_passes: the peaks still to visit
    sat,              \* shadow: the satellite, along and across the Sun-Earth line (km)
    illum,            \* shadow: what shadow and the continuous function return for sat
    eclipse_orbit,    \* eclipses_since: the shadow of the orbit, the start and the limit
    t0,               \* eclipses_since: the cursor
    eclipses,         \* eclipses_since: the intervals yielded so far, in order
    ecl_pc            \* eclipses_since: position of the generator

\* The variables of the stepping TLEPredictor.
steppingVars == <<when_utc, pass_, next_pass>>

\* The variables of the TLE sources and of the predictors reading them.
sourceVars == <<tles, got, tle, positions>>

\* The variables of the HTTP sources (the cache of WSTLESource is tles).
httpVars == <<fetched, norad>>

\* The variables of J2Predictor.sun_synchronous.
sunSyncVars == <<given, predictor>>

\* The variables of the Kepler solver.
solverVars == <<M, ecc, E, iterations, solver_pc>>

\* The variables of LocationPredictor.is_passing.
visibilityVars == <<passing>>

\* The variables of SmartLocationPredictor beyond those of the base class.
smartVars == <<peaks_idx>>

\* The variables of the illumination functions.
shadowVars == <<sat, illum>>

\* The variables of the eclipse search.
eclipseVars == <<eclipse_orbit, t0, eclipses, ecl_pc>>

\* The variables of the visibility, illumination and eclipse components.
geometryVars == <<visibilityVars, smartVars, shadowVars, eclipseVars>>

\* The variables of the components other than the pass searches.
otherVars == <<sourceVars, httpVars, sunSyncVars, solverVars, geometryVars>>

\* The variables outside the bracketed pass search.
outsideSearch == <<steppingVars, otherVars>>

vars == <<kind, args, heights, riseDur, depth, start_date, limit_date, max_elevation_gt,
          aos_at, tolerance, caller, pc, current_date, passes, last, error,
          logged, result, visited, probes, outsideSearch>>

inputs == <<kind, args, heights, riseDur, depth, start_date, limit_date, max_elevation_gt,
            aos_at, tolerance, caller>>

\* ----------------------------------------------------------------- helpers
Max(a, b) == IF a >= b THEN a ELSE b

\* math.radians on the fixed-point scale.
Radians(deg) == deg * UnitsPerDeg

\* timedelta / 2: true division, rounded half to even on the resolution.
HalfEven(d) ==
    LET q == d \div 2
    IN  IF d % 2 = 0 THEN q
        ELSE IF q % 2 = 0 THEN q ELSE q + 1

\* LocationPredictor.midpoint
midpoint(start, end) == start + HalfEven(end - start)

\* LocationPredictor._orbit_step for size = pct / 100, rounded to the tick.
orbit_step(pct) == (pct * Period + 50) \div 100

\* LocationPredictor._elevation_at: the elevation of the satellite over the
\* location. Troughs sit at multiples of Period, the peak of orbit k at
\* k * Period + riseDur.
elevation_at(t) ==
    LET k  == t \div Period
        ph == t % Period
        h  == heights[(k % NumHeights) + 1]
    IN  IF ph <= riseDur
        THEN ((h + depth) * ph) \div riseDur - depth
        ELSE h - ((h + depth) * (ph - riseDur)) \div (Period - riseDur)

\* Ticks after which the elevation profile repeats.
ProfilePeriod == NumHeights * Period

\* LocationPredictor._is_ascending
is_ascending(t) == elevation_at(t) <= elevation_at(t + tolerance)

\* LocationPredictor._precision_reached
precision_reached(start, end) == end - start <= tolerance

\* _sample_points probing the orbit before the date instead of after it.
sample_points_backwards(date) ==
    LET start     == date
        end       == date - orbit_step(99)
        mid       == midpoint(end, start)
        mid_right == midpoint(mid, start)
        mid_left  == midpoint(end, mid)
    IN  <<end, mid, mid_right, mid_left>>

\* _sample_points handing out the left quarter point before the right one.
sample_points_left_first(date) ==
    LET start     == date
        end       == date + orbit_step(99)
        mid       == midpoint(start, end)
        mid_right == midpoint(mid, end)
        mid_left  == midpoint(start, mid)
    IN  <<end, mid, mid_left, mid_right>>

\* LocationPredictor._sample_points
sample_points(date) ==
    LET start     == date
        end       == date + orbit_step(99)
        mid       == midpoint(start, end)
        mid_right == midpoint(mid, end)
        mid_left  == midpoint(start, mid)
    IN  <<end, mid, mid_right, mid_left>>

\* The for loop over the probe points: the first candidate among those at
\* the indexes hits, {} when the loop runs to its else.
first_candidate(cands, hits) ==
    IF hits = {} THEN {}
    ELSE {cands[CHOOSE i \in hits : \A j \in hits : i <= j]}

\* The probe points the for loop tests before it returns or runs to its
\* else: those up to the first candidate.
probed(cands, hits) ==
    IF hits = {} THEN cands
    ELSE SubSeq(cands, 1, CHOOSE i \in hits : \A j \in hits : i <= j)

\* The probe points tested by _find_nearest_descending.
probed_descending(ascending_date) ==
    LET cands == sample_points(ascending_date)
    IN  probed(cands, {i \in 1..Len(cands) : ~is_ascending(cands[i])})

\* The probe points tested by _find_nearest_ascending.
probed_ascending(descending_date) ==
    LET cands == sample_points(descending_date)
    IN  probed(cands, {i \in 1..Len(cands) : is_ascending(cands[i])})

\* LocationPredictor._find_nearest_descending: {} when the for-else raises.
find_nearest_descending(ascending_date) ==
    LET cands == sample_points(ascending_date)
    IN  first_candidate(cands, {i \in 1..Len(cands) : ~is_ascending(cands[i])})

\* LocationPredictor._find_nearest_ascending: {} when the for-else raises.
find_nearest_ascending(descending_date) ==
    LET cands == sample_points(descending_date)
    IN  first_candidate(cands, {i \in 1..Len(cands) : is_ascending(cands[i])})

\* LocationPredictor._find_tca
RECURSIVE find_tca(_, _)
find_tca(ascending_date, descending_date) ==
    IF precision_reached(ascending_date, descending_date) THEN ascending_date
    ELSE LET m == midpoint(ascending_date, descending_date)
         IN  IF is_ascending(m) THEN find_tca(m, descending_date)
             ELSE find_tca(ascending_date, m)

\* The bisection loop of _find_aos.
RECURSIVE aos_loop(_, _)
aos_loop(start, end) ==
    IF precision_reached(start, end) THEN end
    ELSE LET m == midpoint(start, end)
         IN  IF elevation_at(m) < aos_at THEN aos_loop(m, end)
             ELSE aos_loop(start, m)

\* The assertion of _find_aos on the left end of its bracket.
aos_assertion(tca) == elevation_at(tca - orbit_step(34)) < 0

\* LocationPredictor._find_aos, where its assertion holds.
find_aos(tca) == aos_loop(tca - orbit_step(34), tca)

\* The bisection loop of _find_los.
RECURSIVE los_loop(_, _)
los_loop(start, end) ==
    IF precision_reached(start, end) THEN start
    ELSE LET m == midpoint(start, end)
         IN  IF elevation_at(m) < aos_at THEN los_loop(start, m)
             ELSE los_loop(m, end)

\* _find_los with its bracket laid before the TCA instead of after it.
find_los_before(tca) == los_loop(tca - orbit_step(34), tca)

\* LocationPredictor._find_los
find_los(tca) == los_loop(tca, tca + orbit_step(34))

\* _refine_pass testing the TCA elevation against the horizon threshold
\* aos_at instead of max_elevation_gt.
refine_pass_aos_at(ascending_date, descending_date) ==
    LET tca       == find_tca(ascending_date, descending_date)
        elevation == elevation_at(tca)
    IN  IF elevation > aos_at
        THEN IF aos_assertion(tca)
             THEN [aos |-> {find_aos(tca)}, tca |-> tca, los |-> {find_los(tca)},
                   max_elevation |-> elevation, raised |-> FALSE]
             ELSE [aos |-> {}, tca |-> tca, los |-> {},
                   max_elevation |-> elevation, raised |-> TRUE]
        ELSE [aos |-> {}, tca |-> tca, los |-> {},
              max_elevation |-> elevation, raised |-> FALSE]

\* LocationPredictor._refine_pass. aos and los are {} for None; raised is
\* TRUE when the assertion of _find_aos fails.
refine_pass(ascending_date, descending_date) ==
    LET tca       == find_tca(ascending_date, descending_date)
        elevation == elevation_at(tca)
    IN  IF elevation > max_elevation_gt
        THEN IF aos_assertion(tca)
             THEN [aos |-> {find_aos(tca)}, tca |-> tca, los |-> {find_los(tca)},
                   max_elevation |-> elevation, raised |-> FALSE]
             ELSE [aos |-> {}, tca |-> tca, los |-> {},
                   max_elevation |-> elevation, raised |-> TRUE]
        ELSE [aos |-> {}, tca |-> tca, los |-> {},
              max_elevation |-> elevation, raised |-> FALSE]

\* AccuratePredictedPass.valid
valid(p) == p.max_elevation > 0 /\ p.aos # {} /\ p.los # {}

The(S) == CHOOSE x \in S : TRUE

\* LocationPredictor._build_predicted_pass
build_predicted_pass(p) ==
    [aos |-> The(p.aos), los |-> The(p.los), max_elevation_date |-> p.tca,
     max_elevation |-> p.max_elevation, duration |-> The(p.los) - The(p.aos)]

\* Whether the predictor class has the attribute tle read by the error log.
has_tle(k) == k = "TLE"

\* The exception leaving _find_nearest_ascending / _find_nearest_descending
\* when no candidate is found.
probe_failure(k) == IF has_tle(k) THEN "PropagationError" ELSE "AttributeError"

\* BaseLocationPredictor.__init__: the threshold a pass must exceed.
init_max_elevation_gt(gt, dg) == Radians(Max(gt, dg))

\* The stepping TLEPredictor before any call of get_next_pass.
SteppingIdle ==
    /\ when_utc = 0
    /\ pass_ = <<>>
    /\ next_pass = [kind |-> "pending"]

\* The identifiers, dates and TLEs the sources are exercised with.
SateIds == {"sat1", "sat2"}
Dates == 0..2
Lines == {"tle1", "tle2"}
\* The sources are followed while they hold at most MaxTles entries.
MaxTles == 3

\* MemoryTLESource.__init__: defaultdict(set); no predictor has read a TLE.
SourceIdle ==
    /\ tles = [id \in SateIds |-> <<>>]
    /\ got = [sate_id |-> "", date |-> 0, outcome |-> [kind |-> "pending"]]
    /\ tle = {}
    /\ positions = {}

\* No request has been made to an HTTP endpoint.
HttpIdle ==
    /\ fetched = [kind |-> "pending"]
    /\ norad = [kind |-> "pending"]

\* sun_synchronous has not been called.
SunSyncIdle ==
    /\ given = <<>>
    /\ predictor = [kind |-> "pending"]

\* A float: a finite value in hundredths, or a value that is not finite.
Float(v) == [finite |-> TRUE, v |-> v]

\* nan or inf: sin of it is nan, arithmetic with it is not finite and no
\* comparison below is true of it.
NaN == [finite |-> FALSE, v |-> 0]

\* M_to_E has not been called.
SolverIdle ==
    /\ M = Float(0)
    /\ ecc = 0
    /\ E = Float(0)
    /\ iterations = 0
    /\ solver_pc = "idle"

\* is_passing has not been called.
VisibilityIdle == passing = [kind |-> "pending"]

\* No SmartLocationPredictor is iterating.
SmartIdle == peaks_idx = <<>>

\* The illumination functions have not been called.
ShadowIdle ==
    /\ sat = [h |-> 0, v |-> 0]
    /\ illum = [kind |-> "pending"]

\* eclipses_since has not been called.
EclipseIdle ==
    /\ eclipse_orbit = [first |-> 0, duration |-> 0, start |-> 0, limit |-> 0]
    /\ t0 = 0
    /\ eclipses = <<>>
    /\ ecl_pc = "idle"

GeometryIdle ==
    /\ VisibilityIdle
    /\ SmartIdle
    /\ ShadowIdle
    /\ EclipseIdle

\* ------------------------------------------------------------------- Init
\* BaseLocationPredictor.__init__ behind passes_over / get_next_pass.
Init ==
    /\ kind \in PredictorKinds
    /\ heights \in [1..NumHeights -> HeightSet]
    /\ riseDur \in RiseDurs
    /\ depth \in Depths
    /\ start_date \in StartDates
    /\ limit_date \in {{}} \cup {{start_date + o} : o \in LimitOffsets}
    /\ args \in [max_elevation_gt : MaxElevationGts, aos_at_dg : AosAtDgs]
    /\ max_elevation_gt = init_max_elevation_gt(args.max_elevation_gt, args.aos_at_dg)
    /\ aos_at = Radians(args.aos_at_dg)
    /\ tolerance \in Tolerances
    /\ caller \in Callers
    /\ pc = "loop"
    /\ current_date = start_date
    /\ passes = <<>>
    /\ last = <<>>
    /\ error = ""
    /\ logged = 0
    /\ result = [kind |-> "pending"]
    /\ visited = {}
    /\ probes = <<>>
    /\ SteppingIdle
    /\ SourceIdle
    /\ HttpIdle
    /\ SunSyncIdle
    /\ SolverIdle
    /\ GeometryIdle

\* ---------------------------------------------------------------- actions
\* The limit test made on the cursor of the search instead of the aos.
aos_past_limit_cursor(p) == limit_date # {} /\ current_date > The(limit_date)

\* The iteration as it was before the aos test: never ended on a valid pass.
aos_never_past_limit(p) == FALSE

\* iter_passes: the test that ends the iteration before a valid pass is
\* yielded.
aos_past_limit(p) == limit_date # {} /\ The(p.aos) > The(limit_date)

\* iter_passes: the test that ends the iteration after a candidate.
cursor_past_limit(cursor) == limit_date # {} /\ cursor > The(limit_date)

\* The cursor after a candidate laid at the start of the aos bracket of the
\* candidate instead of 0.6 orbit after its tca.
next_cursor_aos_bracket(p) == p.tca - orbit_step(34)

\* iter_passes: the cursor after a candidate.
next_cursor(p) == p.tca + orbit_step(60)

\* The tail of one turn of the while loop with the limit check made on the
\* advanced cursor.
advance_then_check(p) ==
    /\ current_date' = next_cursor(p)
    /\ pc' = IF cursor_past_limit(next_cursor(p)) THEN "done" ELSE "loop"

\* The tail of one turn of the while loop: the limit check on the cursor and
\* the advance of the cursor past the candidate.
advance(p) ==
    IF cursor_past_limit(current_date)
    THEN /\ pc' = "done"
         /\ UNCHANGED current_date
    ELSE /\ pc' = "loop"
         /\ current_date' = next_cursor(p)

\* iter_passes, cursor ascending, no descending probe point: the error is
\* logged and the generator raises.
DescendingFailure ==
    /\ pc = "loop" /\ current_date <= MaxTime
    /\ is_ascending(current_date)
    /\ find_nearest_descending(current_date) = {}
    /\ pc' = "error"
    /\ error' = probe_failure(kind)
    /\ logged' = IF has_tle(kind) THEN logged + 1 ELSE logged
    /\ UNCHANGED <<inputs, current_date, passes, last, result>>
    /\ UNCHANGED visited
    /\ probes' = probed_descending(current_date)
    /\ UNCHANGED outsideSearch

\* iter_passes, cursor ascending: the candidate is refined; the assertion of
\* _find_aos fails and leaves the generator.
RefineAssertion ==
    /\ pc = "loop" /\ current_date <= MaxTime
    /\ is_ascending(current_date)
    /\ find_nearest_descending(current_date) # {}
    /\ LET p == refine_pass(current_date, The(find_nearest_descending(current_date)))
       IN  /\ p.raised
           /\ pc' = "error"
           /\ error' = "AssertionError"
    /\ UNCHANGED <<inputs, current_date, passes, last, logged, result>>
    /\ UNCHANGED visited
    /\ probes' = probed_descending(current_date)
    /\ UNCHANGED outsideSearch

\* iter_passes, cursor ascending: the candidate is refined and is valid with
\* its aos past limit_date: the generator ends.
RefineBreak ==
    /\ pc = "loop" /\ current_date <= MaxTime
    /\ is_ascending(current_date)
    /\ find_nearest_descending(current_date) # {}
    /\ LET p == refine_pass(current_date, The(find_nearest_descending(current_date)))
       IN  /\ ~p.raised
           /\ valid(p)
           /\ aos_past_limit(p)
           /\ last' = p
           /\ pc' = "done"
    /\ UNCHANGED <<inputs, current_date, passes, error, logged, result>>
    /\ UNCHANGED visited
    /\ probes' = probed_descending(current_date)
    /\ UNCHANGED outsideSearch

\* iter_passes, cursor ascending: the candidate is refined, is valid and is
\* yielded; the generator is suspended at the yield.
RefineYield ==
    /\ pc = "loop" /\ current_date <= MaxTime
    /\ is_ascending(current_date)
    /\ find_nearest_descending(current_date) # {}
    /\ LET p == refine_pass(current_date, The(find_nearest_descending(current_date)))
       IN  /\ ~p.raised
           /\ valid(p)
           /\ ~aos_past_limit(p)
           /\ last' = p
           /\ passes' = Append(passes, build_predicted_pass(p))
           /\ pc' = "yield"
    /\ UNCHANGED <<inputs, current_date, error, logged, result>>
    /\ UNCHANGED visited
    /\ probes' = probed_descending(current_date)
    /\ UNCHANGED outsideSearch

\* iter_passes resumed after a yield: limit check and advance of the cursor.
Resume ==
    /\ pc = "yield"
    /\ caller = "passes_over"
    /\ advance(last)
    /\ UNCHANGED <<inputs, passes, last, error, logged, result>>
    /\ visited' = {}
    /\ UNCHANGED probes
    /\ UNCHANGED outsideSearch

\* iter_passes, cursor ascending: the candidate is refined and is not valid;
\* it is dropped, then limit check and advance of the cursor.
RefineDrop ==
    /\ pc = "loop" /\ current_date <= MaxTime
    /\ is_ascending(current_date)
    /\ find_nearest_descending(current_date) # {}
    /\ LET p == refine_pass(current_date, The(find_nearest_descending(current_date)))
       IN  /\ ~p.raised
           /\ ~valid(p)
           /\ last' = p
           /\ advance(p)
    /\ UNCHANGED <<inputs, passes, error, logged, result>>
    /\ visited' = visited \cup {current_date}
    /\ probes' = probed_descending(current_date)
    /\ UNCHANGED outsideSearch

\* iter_passes, cursor not ascending: the cursor moves to the first
\* ascending probe point.
SeekAscending ==
    /\ pc = "loop" /\ current_date <= MaxTime
    /\ ~is_ascending(current_date)
    /\ find_nearest_ascending(current_date) # {}
    /\ current_date' = The(find_nearest_ascending(current_date))
    /\ UNCHANGED <<inputs, pc, passes, last, error, logged, result>>
    /\ visited' = visited \cup {current_date}
    /\ probes' = probed_ascending(current_date)
    /\ UNCHANGED outsideSearch

\* iter_passes, cursor not ascending, no ascending probe point: the error is
\* logged and the generator raises.
AscendingFailure ==
    /\ pc = "loop" /\ current_date <= MaxTime
    /\ ~is_ascending(current_date)
    /\ find_nearest_ascending(current_date) = {}
    /\ pc' = "error"
    /\ error' = probe_failure(kind)
    /\ logged' = IF has_tle(kind) THEN logged + 1 ELSE logged
    /\ UNCHANGED <<inputs, current_date, passes, last, result>>
    /\ UNCHANGED visited
    /\ probes' = probed_ascending(current_date)
    /\ UNCHANGED outsideSearch

\* get_next_pass without the else of its for loop: when the iterator ends
\* the function falls off its end and returns None.
get_next_pass_outcome_no_else(state, yielded, exc) ==
    IF state = "yield" THEN [kind |-> "return", value |-> yielded[1]]
    ELSE IF state = "done" THEN [kind |-> "return", value |-> "None"]
    ELSE [kind |-> "raise", exc |-> exc]

\* What the for / else of get_next_pass makes of the state of the iterator.
get_next_pass_outcome(state, yielded, exc) ==
    IF state = "yield" THEN [kind |-> "return", value |-> yielded[1]]
    ELSE IF state = "done" THEN [kind |-> "raise", exc |-> "NotReachable"]
    ELSE [kind |-> "raise", exc |-> exc]

\* CartesianPredictor.get_next_pass: returns at the first pass, raises
\* NotReachable when the iterator ends, lets any other exception through.
GetNextPass ==
    /\ caller = "get_next_pass"
    /\ result.kind = "pending"
    /\ pc \in {"yield", "done", "error"}
    /\ result' = get_next_pass_outcome(pc, passes, error)
    /\ UNCHANGED <<inputs, pc, current_date, passes, last, error, logged>>
    /\ UNCHANGED visited
    /\ UNCHANGED probes
    /\ UNCHANGED outsideSearch

\* iter_passes followed from a cursor to the first thing the generator does:
\* a yield, its end, an exception, or "unfinished" once the cursor is past
\* MaxTime.
RECURSIVE first_outcome(_)
first_outcome(cursor) ==
    IF cursor > MaxTime THEN [kind |-> "unfinished"]
    ELSE IF is_ascending(cursor)
    THEN LET descending_date == find_nearest_descending(cursor)
         IN  IF descending_date = {} THEN [kind |-> "error"]
             ELSE LET p == refine_pass(cursor, The(descending_date))
                  IN  IF p.raised THEN [kind |-> "error"]
                      ELSE IF valid(p)
                      THEN IF aos_past_limit(p) THEN [kind |-> "done"]
                           ELSE [kind |-> "yield", pass |-> build_predicted_pass(p)]
                      ELSE IF cursor_past_limit(cursor) THEN [kind |-> "done"]
                      ELSE first_outcome(next_cursor(p))
    ELSE LET ascending_date == find_nearest_ascending(cursor)
         IN  IF ascending_date = {} THEN [kind |-> "error"]
             ELSE first_outcome(The(ascending_date))

Next ==
    \/ DescendingFailure
    \/ RefineAssertion
    \/ RefineBreak
    \/ RefineYield
    \/ Resume
    \/ RefineDrop
    \/ SeekAscending
    \/ AscendingFailure
    \/ GetNextPass

Spec == Init /\ [][Next]_vars

\* ------------------------------------------------ stepping TLEPredictor
\* predictors/tle.py (and its copy in predictors.py): get_next_pass walks the
\* dates forward in steps of seconds and reads the elevation at each of them.
\* Seconds in one tick of the dates.
SecondsPerTick == 5

Abs(x) == IF x >= 0 THEN x ELSE -x

\* _get_next_pass: the increment of the date after a sample, in seconds.
delta_s(elev_deg) ==
    IF elev_deg < Radians(-2)
    THEN (Abs(elev_deg) * 15) \div UnitsPerDeg + 10
    ELSE 20

\* datetime.timedelta(seconds=...) on the tick of the dates.
timedelta(seconds) == seconds \div SecondsPerTick

\* _get_next_pass: the PredictedPass it starts from. {} is None.
empty_pass ==
    [aos |-> {}, los |-> {}, max_elevation_date |-> {}, max_elevation_deg |-> 0,
     duration_s |-> 0]

\* The limit test of _get_next_pass made once, on the date the search starts
\* from, instead of on every date sampled.
limit_exceeded_at_start(when, date, limit) == limit # {} /\ when > The(limit)

\* _get_next_pass: the limit test on the date sampled.
limit_exceeded(when, date, limit) == limit # {} /\ date > The(limit)

\* The while loop of _get_next_pass from the sample at date on: the pass it
\* returns, NotReachable, or "unfinished" once the date is past MaxTime.
RECURSIVE get_next_pass_loop(_, _, _, _)
get_next_pass_loop(when, date, p, limit) ==
    IF limit_exceeded(when, date, limit) THEN [kind |-> "raise", exc |-> "NotReachable"]
    ELSE IF date > MaxTime THEN [kind |-> "unfinished"]
    ELSE LET elev_deg == elevation_at(date)
             higher   == IF elev_deg > p.max_elevation_deg
                         THEN [p EXCEPT !.max_elevation_date = {date},
                                        !.max_elevation_deg = elev_deg]
                         ELSE p
             risen    == IF elev_deg > aos_at /\ higher.aos = {}
                         THEN [higher EXCEPT !.aos = {date}]
                         ELSE higher
         IN  IF risen.aos # {} /\ elev_deg < aos_at
             THEN [kind |-> "return",
                   value |-> [risen EXCEPT !.los = {date},
                                           !.duration_s = (date - The(risen.aos)) * SecondsPerTick]]
             ELSE get_next_pass_loop(when, date + timedelta(delta_s(elev_deg)), risen, limit)

\* _get_next_pass taking its first sample one step after when_utc.
get_next_pass_inner_skip(when, limit) ==
    get_next_pass_loop(when, when + timedelta(20), empty_pass, limit)

\* TLEPredictor._get_next_pass
get_next_pass_inner(when, limit) == get_next_pass_loop(when, when, empty_pass, limit)

\* TLEPredictor.get_next_pass as a function of its arguments: the inner
\* search repeated from the los of each pass that peaks under
\* max_elevation_gt.
RECURSIVE get_next_pass_stepping(_, _)
get_next_pass_stepping(when, limit) ==
    LET r == get_next_pass_inner(when, limit)
    IN  IF r.kind = "return" /\ r.value.max_elevation_deg < max_elevation_gt
        THEN get_next_pass_stepping(The(r.value.los), limit)
        ELSE r

\* get_next_pass called with the arguments drawn; max_elevation_gt is raised
\* to aos_at_dg when it is below it.
SteppingInit ==
    /\ kind = "TLE"
    /\ heights \in [1..NumHeights -> HeightSet]
    /\ riseDur \in RiseDurs
    /\ depth \in Depths
    /\ start_date \in StartDates
    /\ limit_date \in {{}} \cup {{start_date + o} : o \in LimitOffsets}
    /\ args \in [max_elevation_gt : MaxElevationGts, aos_at_dg : AosAtDgs]
    /\ max_elevation_gt = Radians(Max(args.max_elevation_gt, args.aos_at_dg))
    /\ aos_at = Radians(args.aos_at_dg)
    /\ tolerance = 1
    /\ caller = "get_next_pass"
    /\ pc = "idle"
    /\ current_date = start_date
    /\ passes = <<>>
    /\ last = <<>>
    /\ error = ""
    /\ logged = 0
    /\ result = [kind |-> "pending"]
    /\ visited = {}
    /\ probes = <<>>
    /\ when_utc = start_date
    /\ pass_ = <<>>
    /\ next_pass = [kind |-> "pending"]
    /\ SourceIdle
    /\ HttpIdle
    /\ SunSyncIdle
    /\ SolverIdle
    /\ GeometryIdle

searchVars == <<kind, args, heights, riseDur, depth, start_date, limit_date,
                max_elevation_gt, aos_at, tolerance, caller, pc, current_date,
                passes, last, error, logged, result, visited, probes>>

\* get_next_pass: _get_next_pass found a pass that peaks under
\* max_elevation_gt; the search is repeated from its los.
SteppingRetry ==
    /\ next_pass.kind = "pending"
    /\ LET r == get_next_pass_inner(when_utc, limit_date)
       IN  /\ r.kind = "return"
           /\ r.value.max_elevation_deg < max_elevation_gt
           /\ pass_' = r.value
           /\ when_utc' = The(r.value.los)
    /\ UNCHANGED <<searchVars, next_pass, otherVars>>

\* get_next_pass: _get_next_pass found a pass that peaks at or above
\* max_elevation_gt; it is returned.
SteppingReturn ==
    /\ next_pass.kind = "pending"
    /\ LET r == get_next_pass_inner(when_utc, limit_date)
       IN  /\ r.kind = "return"
           /\ ~(r.value.max_elevation_deg < max_elevation_gt)
           /\ pass_' = r.value
           /\ next_pass' = r
    /\ UNCHANGED <<searchVars, when_utc, otherVars>>

\* get_next_pass: _get_next_pass sampled a date after limit_date and raised
\* NotReachable.
SteppingNotReachable ==
    /\ next_pass.kind = "pending"
    /\ LET r == get_next_pass_inner(when_utc, limit_date)
       IN  /\ r.kind = "raise"
           /\ next_pass' = r
    /\ UNCHANGED <<searchVars, when_utc, pass_, otherVars>>

SteppingNext ==
    \/ SteppingRetry
    \/ SteppingReturn
    \/ SteppingNotReachable

SteppingSpec == SteppingInit /\ [][SteppingNext]_vars

\* ---------------------------------------------------------- TLE sources
\* The bracketed pass search before any search is made.
SearchIdle ==
    /\ kind = "TLE"
    /\ heights = [i \in 1..NumHeights |-> 0]
    /\ riseDur = 1
    /\ depth = 0
    /\ start_date = 0
    /\ limit_date = {}
    /\ args = [max_elevation_gt |-> 0, aos_at_dg |-> 0]
    /\ max_elevation_gt = 0
    /\ aos_at = 0
    /\ tolerance = 1
    /\ caller = "passes_over"
    /\ pc = "idle"
    /\ current_date = 0
    /\ passes = <<>>
    /\ last = <<>>
    /\ error = ""
    /\ logged = 0
    /\ result = [kind |-> "pending"]
    /\ visited = {}
    /\ probes = <<>>

\* abs((epoch - date).total_seconds())
c_dt(epoch, date) == Abs(epoch - date)

\* The entries of a set held in its iteration order.
Entries(candidates) == {candidates[i] : i \in 1..Len(candidates)}

\* The for loop of MemoryTLESource._get_tle: the winner is the first entry,
\* in the iteration order of the set, that no later one beats with a strict
\* <; {} when the set is empty.
winner(candidates, date) ==
    LET nearest == {i \in 1..Len(candidates) :
                       \A j \in 1..Len(candidates) :
                           c_dt(candidates[i][1], date) <= c_dt(candidates[j][1], date)}
    IN  IF nearest = {} THEN {}
        ELSE {candidates[CHOOSE i \in nearest : \A j \in nearest : i <= j]}

\* The outcome of _get_tle for the winner of its loop. entry is the stored
\* <<epoch, tle>> the lines returned come from.
lines_of(found) ==
    IF found = {}
    THEN [kind |-> "raise", exc |-> "LookupError"]
    ELSE [kind |-> "return", value |-> The(found)[2], entry |-> The(found)]

\* _get_tle looking through the entries of every satellite.
memory_get_tle_any_sate(store, sate_id, date) ==
    lines_of(winner(store["sat1"] \o store["sat2"], date))

\* MemoryTLESource._get_tle
memory_get_tle(store, sate_id, date) == lines_of(winner(store[sate_id], date))

\* TLESource.get_tle on the outcome of _get_tle: the TLE namedtuple.
get_tle(sate_id, date, found) ==
    IF found.kind = "return"
    THEN [kind |-> "return",
          value |-> [sate_id |-> sate_id, lines |-> found.value, date |-> date],
          entry |-> found.entry]
    ELSE found

\* The number of entries held by the source.
stored == Len(tles["sat1"]) + Len(tles["sat2"])

\* set.add: an entry already held changes nothing; a new entry takes the
\* place at in the iteration order (the place its hash gives it).
set_add(candidates, entry, at) ==
    IF entry \in Entries(candidates) THEN candidates
    ELSE SubSeq(candidates, 1, at - 1) \o <<entry>> \o SubSeq(candidates, at, Len(candidates))

\* MemoryTLESource.add_tle
AddTle ==
    /\ stored < MaxTles
    /\ \E sate_id \in SateIds, lines \in Lines, epoch \in Dates :
          \E at \in 1..(Len(tles[sate_id]) + 1) :
              tles' = [tles EXCEPT ![sate_id] = set_add(@, <<epoch, lines>>, at)]
    /\ UNCHANGED <<searchVars, steppingVars, geometryVars, got, tle, positions, httpVars, sunSyncVars, solverVars>>

\* TLESource.get_tle over a MemoryTLESource: _get_tle finds lines and the
\* TLE namedtuple is returned.
GetTle ==
    /\ \E sate_id \in SateIds, date \in Dates :
          LET found == memory_get_tle(tles, sate_id, date)
          IN  /\ found.kind = "return"
              /\ got' = [sate_id |-> sate_id, date |-> date,
                         outcome |-> get_tle(sate_id, date, found)]
    /\ UNCHANGED <<searchVars, steppingVars, geometryVars, tles, tle, positions, httpVars, sunSyncVars, solverVars>>

\* TLESource.get_tle over a MemoryTLESource: _get_tle raises LookupError and
\* get_tle lets it through.
GetTleLookupError ==
    /\ \E sate_id \in SateIds, date \in Dates :
          LET found == memory_get_tle(tles, sate_id, date)
          IN  /\ found.kind = "raise"
              /\ got' = [sate_id |-> sate_id, date |-> date,
                         outcome |-> get_tle(sate_id, date, found)]
    /\ UNCHANGED <<searchVars, steppingVars, geometryVars, tles, tle, positions, httpVars, sunSyncVars, solverVars>>

SourceInit ==
    /\ SearchIdle
    /\ SteppingIdle
    /\ SourceIdle
    /\ HttpIdle
    /\ SunSyncIdle
    /\ SolverIdle
    /\ GeometryIdle

SourceNext ==
    \/ AddTle
    \/ GetTle
    \/ GetTleLookupError

SourceSpec == SourceInit /\ [][SourceNext]_vars

\* The predictors are followed while they have answered at most MaxQueries
\* position queries.
MaxQueries == 2

\* The satellite of the two predictors built on the source.
SATE_ID == "sat1"

\* sgp4 propagation of TLE lines to a date: the position is a function of
\* the lines and the date, held as the pair.
propagate(lines, when) == [lines |-> lines, when_utc |-> when]

\* TLEPredictor._propagate_eci: the TLE is asked of the source at every
\* call, for the date propagated to.
PropagateEci ==
    /\ Cardinality(positions) < MaxQueries
    /\ \E when \in Dates :
          LET found == memory_get_tle(tles, SATE_ID, when)
          IN  /\ found.kind = "return"
              /\ positions' = positions \cup
                    {[predictor |-> "TLEPredictor",
                      position |-> propagate(get_tle(SATE_ID, when, found).value.lines, when)]}
    /\ UNCHANGED <<searchVars, steppingVars, geometryVars, tles, got, tle, httpVars, sunSyncVars, solverVars>>

\* HighAccuracyTLEPredictor.get_only_position, first use: tle and propagator
\* are reified from the TLE the source holds nearest to utcnow().
PropagateReify ==
    /\ Cardinality(positions) < MaxQueries
    /\ tle = {}
    /\ \E when \in Dates, utcnow \in Dates :
          LET found == memory_get_tle(tles, SATE_ID, utcnow)
          IN  /\ found.kind = "return"
              /\ tle' = {get_tle(SATE_ID, utcnow, found).value}
              /\ positions' = positions \cup
                    {[predictor |-> "HighAccuracyTLEPredictor",
                      position |-> propagate(found.value, when)]}
    /\ UNCHANGED <<searchVars, steppingVars, geometryVars, tles, got, httpVars, sunSyncVars, solverVars>>

\* HighAccuracyTLEPredictor.get_only_position, later uses: the reified
\* propagator is used.
PropagateReified ==
    /\ Cardinality(positions) < MaxQueries
    /\ tle # {}
    /\ \E when \in Dates :
          positions' = positions \cup
              {[predictor |-> "HighAccuracyTLEPredictor",
                position |-> propagate(The(tle).lines, when)]}
    /\ UNCHANGED <<searchVars, steppingVars, geometryVars, tles, got, tle, httpVars, sunSyncVars, solverVars>>

PropagationNext ==
    \/ AddTle
    \/ PropagateEci
    \/ PropagateReify
    \/ PropagateReified

PropagationSpec == SourceInit /\ [][PropagationNext]_vars

\* ----------------------------------------------------------- HTTP sources
\* What requests.get can come back with: a RequestException, or a response
\* with its ok flag and its body.
Transport == [kind |-> "exception"]

\* Bodies of the JSON endpoint of WSTLESource: with or without 'lines'.
JsonBodies == {[lines |-> "tle1"], [lines |-> "tle2"], [detail |-> "not found"]}

\* Bodies of the text endpoint of NoradTLESource, as lines of words: a NORAD
\* file with one satellite, and error pages.
TextBodies ==
    {<< <<"sat1">>, <<"tle1">>, <<"tle2">> >>,
     << <<"sat2">>, <<"tle1">>, <<"tle2">> >>,
     << <<"sat1", "not", "found">>, <<"retry">>, <<"later">> >>,
     << <<"error">> >>}

JsonResponses == {Transport} \cup [kind : {"response"}, ok : BOOLEAN, body : JsonBodies]
TextResponses == {Transport} \cup [kind : {"response"}, ok : BOOLEAN, body : TextBodies]

\* 'lines' in response.json()
has_lines(body) == "lines" \in DOMAIN body

\* WSTLESource._fetch_tle: the RequestException of requests.get is raised
\* again; the lines are returned when the response is ok and has them;
\* anything else raises ValueError.
fetch_tle(response) ==
    IF response.kind = "exception" THEN [kind |-> "raise", exc |-> "RequestException"]
    ELSE IF response.ok /\ has_lines(response.body)
    THEN [kind |-> "return", value |-> response.body.lines]
    ELSE [kind |-> "raise", exc |-> "ValueError"]

\* The lookup on the cache answering only for the very date an entry was
\* saved with.
cache_get_tle_same_date(store, sate_id, date) ==
    LET same == {i \in 1..Len(store[sate_id]) : store[sate_id][i][1] = date}
    IN  IF same = {} THEN [kind |-> "raise", exc |-> "LookupError"]
        ELSE LET found == store[sate_id][CHOOSE i \in same : \A j \in same : i <= j]
             IN  [kind |-> "return", value |-> found[2], entry |-> found]

\* WSTLESource._get_tle, first lookup on cache: self.cache._get_tle.
cache_get_tle(store, sate_id, date) == memory_get_tle(store, sate_id, date)

\* WSTLESource._get_tle, the cache holds an entry of the satellite: its lines
\* are returned and no request is made.
WsCached ==
    /\ \E sate_id \in SateIds, date \in Dates :
          LET lines_from_cache == cache_get_tle(tles, sate_id, date)
          IN  /\ lines_from_cache.kind = "return"
              /\ fetched' = [kind |-> "return", value |-> lines_from_cache.value,
                             sate_id |-> sate_id, date |-> date, requested |-> FALSE]
    /\ UNCHANGED <<searchVars, steppingVars, geometryVars, sourceVars, norad, sunSyncVars, solverVars>>

\* WSTLESource._get_tle, nothing cached for the satellite: the lines fetched
\* are saved on the cache, with the date asked as their epoch, and returned.
WsFetched ==
    /\ stored < MaxTles
    /\ \E sate_id \in SateIds, date \in Dates, response \in JsonResponses :
          /\ cache_get_tle(tles, sate_id, date).kind = "raise"
          /\ fetch_tle(response).kind = "return"
          /\ tles' = [tles EXCEPT ![sate_id] = set_add(@, <<date, fetch_tle(response).value>>, 1)]
          /\ fetched' = [kind |-> "return", value |-> fetch_tle(response).value,
                         sate_id |-> sate_id, date |-> date, requested |-> TRUE,
                         response |-> response]
    /\ UNCHANGED <<searchVars, steppingVars, geometryVars, got, tle, positions, norad, sunSyncVars,
                   solverVars>>

\* WSTLESource._get_tle, nothing cached for the satellite and _fetch_tle
\* raises: the exception leaves _get_tle and nothing is cached.
WsFetchRaises ==
    /\ \E sate_id \in SateIds, date \in Dates, response \in JsonResponses :
          /\ cache_get_tle(tles, sate_id, date).kind = "raise"
          /\ fetch_tle(response).kind = "raise"
          /\ fetched' = [kind |-> "raise", exc |-> fetch_tle(response).exc,
                         sate_id |-> sate_id, date |-> date, requested |-> TRUE,
                         response |-> response]
    /\ UNCHANGED <<searchVars, steppingVars, geometryVars, sourceVars, norad, sunSyncVars, solverVars>>

\* WSTLESource.add_tle: always raises ValueError.
WsAddTle ==
    /\ \E sate_id \in SateIds, date \in Dates :
          fetched' = [kind |-> "raise", exc |-> "ValueError", sate_id |-> sate_id,
                      date |-> date, requested |-> FALSE]
    /\ UNCHANGED <<searchVars, steppingVars, geometryVars, sourceVars, norad, sunSyncVars, solverVars>>

\* NoradTLESource.from_url: the RequestException of requests.get is raised
\* again.
NoradFromUrlRaises ==
    /\ norad' = [kind |-> "raise", exc |-> "RequestException", response |-> Transport]
    /\ UNCHANGED <<searchVars, steppingVars, geometryVars, sourceVars, fetched, sunSyncVars, solverVars>>

\* NoradTLESource.from_url: the body of the response is split into lines and
\* the source is built on them.
NoradFromUrl ==
    /\ \E response \in TextResponses :
          /\ response.kind = "response"
          /\ norad' = [kind |-> "return", content |-> response.body, response |-> response]
    /\ UNCHANGED <<searchVars, steppingVars, geometryVars, sourceVars, fetched, sunSyncVars, solverVars>>

\* sate_id in sate: the identifier is looked for inside the name line.
in_name(sate_id, sate) == \E i \in 1..Len(sate) : sate[i] = sate_id

\* NoradTLESource._get_tle: the content is read three lines at a time and the
\* two lines after the first name holding the sate_id are returned.
norad_get_tle(content, sate_id) ==
    LET names == {k \in 0..((Len(content) \div 3) - 1) : in_name(sate_id, content[3 * k + 1])}
    IN  IF names = {} THEN [kind |-> "raise", exc |-> "LookupError"]
        ELSE LET k == CHOOSE k \in names : \A j \in names : k <= j
             IN  [kind |-> "return", value |-> <<content[3 * k + 2], content[3 * k + 3]>>]

\* NoradTLESource._get_tle on the source built by from_url.
NoradGetTle ==
    /\ norad.kind = "return"
    /\ \E sate_id \in SateIds :
          got' = [sate_id |-> sate_id, date |-> 0,
                  outcome |-> norad_get_tle(norad.content, sate_id)]
    /\ UNCHANGED <<searchVars, steppingVars, geometryVars, tles, tle, positions, httpVars, sunSyncVars,
                   solverVars>>

HttpNext ==
    \/ WsAddTle
    \/ WsCached
    \/ WsFetched
    \/ WsFetchRaises
    \/ NoradFromUrlRaises
    \/ NoradFromUrl
    \/ NoradGetTle

HttpSpec == SourceInit /\ [][HttpNext]_vars

\* ------------------------------------------------ J2Predictor.sun_synchronous
\* Earth radius in km (wgs84.radiusearthkm, rounded).
R_E_KM == 6378

\* The values a call can supply: altitude in km, eccentricity in thousandths,
\* inclination in tenths of a degree; {} is None.
AltKm == {400, 800, 10000}
Eccs == {0, 200}
IncDegs == {900, 986}
LtanHs == {6, 12}
TaDegs == {0, 90}

Option(S) == {{}} \cup {{x} : x \in S}

Calls ==
    [alt_km : Option(AltKm), ecc : Option(Eccs), inc_deg : Option(IncDegs),
     ltan_h : LtanHs, ta_deg : TaDegs]

\* The inclination solved from altitude and eccentricity, rounded; {} where
\* np.arccos is given a value outside [-1, 1] and FloatingPointError is raised.
solve_inc_deg(a, e) ==
    IF a = 400 THEN (IF e = 0 THEN {970} ELSE {965})
    ELSE IF a = 800 THEN (IF e = 0 THEN {986} ELSE {979})
    ELSE {}

\* The eccentricity solved from altitude and inclination, rounded; {} where
\* np.sqrt is given a negative value and FloatingPointError is raised.
solve_ecc(a, i) ==
    IF i = 900 THEN {}
    ELSE IF a = 400 THEN {}
    ELSE IF a = 800 THEN {13}
    ELSE {874}

\* The semi-major axis solved from eccentricity and inclination, rounded; {}
\* where the power of a negative value raises FloatingPointError.
solve_sma(e, i) ==
    IF i = 900 THEN {}
    ELSE IF e = 0 THEN {7177}
    ELSE {7347}

\* The body of sun_synchronous: the first branch whose two values are not
\* None computes the third (assigning over the argument), no branch raises
\* ValueError, FloatingPointError becomes InvalidOrbitError, and the
\* predictor is built as cls(sma, ecc, inc_deg, raan, 0, ta_deg, epoch).
sun_synchronous(call) ==
    LET build(sma, e, i) ==
            [kind |-> "return", sma |-> sma, ecc |-> e, inc_deg |-> i, argp_deg |-> 0,
             ta_deg |-> call.ta_deg, epoch_h |-> call.ltan_h]
        invalid == [kind |-> "raise", exc |-> "InvalidOrbitError"]
    IN  IF call.alt_km # {} /\ call.ecc # {}
        THEN LET solved == solve_inc_deg(The(call.alt_km), The(call.ecc))
             IN  IF solved = {} THEN invalid
                 ELSE build(R_E_KM + The(call.alt_km), The(call.ecc), The(solved))
        ELSE IF call.alt_km # {} /\ call.inc_deg # {}
        THEN LET solved == solve_ecc(The(call.alt_km), The(call.inc_deg))
             IN  IF solved = {} THEN invalid
                 ELSE build(R_E_KM + The(call.alt_km), The(solved), The(call.inc_deg))
        ELSE IF call.ecc # {} /\ call.inc_deg # {}
        THEN LET solved == solve_sma(The(call.ecc), The(call.inc_deg))
             IN  IF solved = {} THEN invalid
                 ELSE build(The(solved), The(call.ecc), The(call.inc_deg))
        ELSE [kind |-> "raise", exc |-> "ValueError"]

\* sun_synchronous returns a predictor.
SunSynchronous ==
    /\ \E call \in Calls :
          /\ sun_synchronous(call).kind = "return"
          /\ given' = call
          /\ predictor' = sun_synchronous(call)
    /\ UNCHANGED <<searchVars, steppingVars, geometryVars, sourceVars, httpVars, solverVars>>

\* sun_synchronous raises ValueError: no branch applies.
SunSynchronousValueError ==
    /\ \E call \in Calls :
          /\ sun_synchronous(call) = [kind |-> "raise", exc |-> "ValueError"]
          /\ given' = call
          /\ predictor' = sun_synchronous(call)
    /\ UNCHANGED <<searchVars, steppingVars, geometryVars, sourceVars, httpVars, solverVars>>

\* sun_synchronous raises InvalidOrbitError: no such orbit.
SunSynchronousInvalidOrbit ==
    /\ \E call \in Calls :
          /\ sun_synchronous(call) = [kind |-> "raise", exc |-> "InvalidOrbitError"]
          /\ given' = call
          /\ predictor' = sun_synchronous(call)
    /\ UNCHANGED <<searchVars, steppingVars, geometryVars, sourceVars, httpVars, solverVars>>

SunSyncNext ==
    \/ SunSynchronous
    \/ SunSynchronousValueError
    \/ SunSynchronousInvalidOrbit

SunSyncSpec == SourceInit /\ [][SunSyncNext]_vars

\* ------------------------------------------------- SmartLocationPredictor
\* Ticks between two samples (180 s of an orbit of about 95 minutes).
SampleStep == 3

\* A smart predictor as constructed, before iter_passes runs.
SmartInit ==
    /\ kind = "TLE"
    /\ heights \in [1..NumHeights -> HeightSet]
    /\ riseDur \in RiseDurs
    /\ depth \in Depths
    /\ start_date \in StartDates
    /\ limit_date \in {{}} \cup {{start_date + o} : o \in LimitOffsets}
    /\ args \in [max_elevation_gt : MaxElevationGts, aos_at_dg : AosAtDgs]
    /\ max_elevation_gt = init_max_elevation_gt(args.max_elevation_gt, args.aos_at_dg)
    /\ aos_at = Radians(args.aos_at_dg)
    /\ tolerance = 1
    /\ caller = "passes_over"
    /\ pc = "start"
    /\ current_date = start_date
    /\ passes = <<>>
    /\ last = <<>>
    /\ error = ""
    /\ logged = 0
    /\ result = [kind |-> "pending"]
    /\ visited = {}
    /\ probes = <<>>
    /\ SteppingIdle
    /\ SourceIdle
    /\ HttpIdle
    /\ SunSyncIdle
    /\ SolverIdle
    /\ GeometryIdle

\* SmartLocationPredictor._elevation
smart_elevation(delta) == elevation_at(start_date + delta)

\* len(t_values): np.arange(0, total, 180) stops before total.
num_samples(total) == IF total <= 0 THEN 0 ELSE (total + SampleStep - 1) \div SampleStep

\* elev_values[i], i counted from 0.
elev_value(i) == smart_elevation(i * SampleStep)

\* scipy.signal.find_peaks without conditions: the inner samples higher than
\* both neighbours, a flat top counted once at its middle (rounded down).
find_peaks(n) ==
    {i \in 1..(n - 2) :
        \E l \in 1..i, r \in i..(n - 2) :
            /\ i = (l + r) \div 2
            /\ \A j \in l..r : elev_value(j) = elev_value(i)
            /\ elev_value(l - 1) < elev_value(i)
            /\ elev_value(r + 1) < elev_value(i)}

\* The indexes of a set in increasing order.
ascending(S) ==
    CHOOSE f \in [1..Cardinality(S) -> S] : \A i, j \in 1..Cardinality(S) : i < j => f[i] < f[j]

\* peaks_idx as iter_passes computes it for the interval asked.
sampled_peaks == ascending(find_peaks(num_samples(The(limit_date) - start_date)))

\* root_scalar(brentq) of the elevation over aos_at on the bracket (a, b): {}
\* where both ends have the same sign (ValueError), an end that is a zero,
\* otherwise the first tick at which the sign has changed.
brentq(a, b) ==
    LET f(t) == smart_elevation(t) - aos_at
    IN  IF f(a) * f(b) > 0 THEN {}
        ELSE IF f(a) = 0 THEN {a}
        ELSE IF f(b) = 0 THEN {b}
        ELSE {CHOOSE t \in a..b : f(t) * f(a) <= 0 /\ \A u \in a..(t - 1) : f(u) * f(a) > 0}

\* minimize_scalar(brent) of minus the elevation from the bracket
\* (xa, xb, xc): {} where the three points do not bracket a minimum
\* (ValueError), otherwise the first tick of highest elevation between them.
brent(xa, xb, xc) ==
    IF ~(xa < xb /\ xb < xc) THEN {}
    ELSE IF ~(smart_elevation(xb) > smart_elevation(xa) /\ smart_elevation(xb) > smart_elevation(xc))
    THEN {}
    ELSE {CHOOSE t \in xa..xc :
              /\ \A u \in xa..xc : smart_elevation(u) <= smart_elevation(t)
              /\ \A u \in xa..(t - 1) : smart_elevation(u) < smart_elevation(t)}

\* SmartLocationPredictor._refine_pass; raised where a solver raises.
smart_refine_pass(t_approximate_tca, period_s) ==
    LET t_aos == brentq(t_approximate_tca - period_s \div 2, t_approximate_tca)
        t_los == brentq(t_approximate_tca, t_approximate_tca + period_s \div 2)
        raise == [aos |-> {}, tca |-> 0, los |-> {}, max_elevation |-> 0, raised |-> TRUE]
    IN  IF t_aos = {} \/ t_los = {} THEN raise
        ELSE LET t_tca == brent(The(t_aos), (The(t_los) + The(t_aos)) \div 2, The(t_los))
             IN  IF t_tca = {} THEN raise
                 ELSE [aos |-> {start_date + The(t_aos)}, tca |-> start_date + The(t_tca),
                       los |-> {start_date + The(t_los)},
                       max_elevation |-> smart_elevation(The(t_tca)), raised |-> FALSE]

\* What every step of the smart predictor leaves alone.
smartFrame ==
    <<inputs, current_date, logged, result, visited, probes, steppingVars, sourceVars,
      httpVars, sunSyncVars, solverVars, visibilityVars, shadowVars, eclipseVars>>

\* iter_passes with no limit_date: None - start_date raises TypeError.
SmartTypeError ==
    /\ pc = "start"
    /\ limit_date = {}
    /\ error' = "TypeError"
    /\ pc' = "done"
    /\ UNCHANGED <<passes, last, peaks_idx, smartFrame>>

\* iter_passes: the elevation is sampled and its peaks are found.
SmartSample ==
    /\ pc = "start"
    /\ limit_date # {}
    /\ peaks_idx' = sampled_peaks
    /\ pc' = "loop"
    /\ UNCHANGED <<passes, last, error, smartFrame>>

\* iter_passes: the next peak is under aos_at and is skipped.
SmartContinue ==
    /\ pc = "loop"
    /\ peaks_idx # <<>>
    /\ elev_value(Head(peaks_idx)) < aos_at
    /\ peaks_idx' = Tail(peaks_idx)
    /\ UNCHANGED <<pc, passes, last, error, smartFrame>>

\* iter_passes: the next peak is refined and yielded.
SmartYield ==
    /\ pc = "loop"
    /\ peaks_idx # <<>>
    /\ ~(elev_value(Head(peaks_idx)) < aos_at)
    /\ LET p == smart_refine_pass(Head(peaks_idx) * SampleStep, Period)
       IN  /\ ~p.raised
           /\ last' = p
           /\ passes' = Append(passes, build_predicted_pass(p))
    /\ peaks_idx' = Tail(peaks_idx)
    /\ UNCHANGED <<pc, error, smartFrame>>

\* iter_passes: a solver of _refine_pass raises ValueError.
SmartValueError ==
    /\ pc = "loop"
    /\ peaks_idx # <<>>
    /\ ~(elev_value(Head(peaks_idx)) < aos_at)
    /\ smart_refine_pass(Head(peaks_idx) * SampleStep, Period).raised
    /\ error' = "ValueError"
    /\ pc' = "done"
    /\ UNCHANGED <<passes, last, peaks_idx, smartFrame>>

\* iter_passes: every peak was visited.
SmartStop ==
    /\ pc = "loop"
    /\ peaks_idx = <<>>
    /\ pc' = "done"
    /\ UNCHANGED <<passes, last, error, peaks_idx, smartFrame>>

SmartNext ==
    \/ SmartTypeError
    \/ SmartSample
    \/ SmartContinue
    \/ SmartYield
    \/ SmartValueError
    \/ SmartStop

SmartSpec == SmartInit /\ [][SmartNext]_vars

\* ---------------------------------------------- LocationPredictor.is_passing
\* A location predictor over some elevation profile, before any call.
VisibilityInit ==
    /\ kind \in PredictorKinds
    /\ heights \in [1..NumHeights -> HeightSet]
    /\ riseDur \in RiseDurs
    /\ depth \in Depths
    /\ start_date = 0
    /\ limit_date = {}
    /\ args = [max_elevation_gt |-> 0, aos_at_dg |-> 0]
    /\ max_elevation_gt = 0
    /\ aos_at = 0
    /\ tolerance = 1
    /\ caller = "passes_over"
    /\ pc = "idle"
    /\ current_date = 0
    /\ passes = <<>>
    /\ last = <<>>
    /\ error = ""
    /\ logged = 0
    /\ result = [kind |-> "pending"]
    /\ visited = {}
    /\ probes = <<>>
    /\ SteppingIdle
    /\ SourceIdle
    /\ HttpIdle
    /\ SunSyncIdle
    /\ SolverIdle
    /\ GeometryIdle

\* bool(x) of a float: False for zero only.
bool(x) == x # 0

\* LocationPredictor.is_passing
is_passing(date) == bool(elevation_at(date))

\* A call of is_passing.
IsPassing ==
    /\ \E date \in 0..(ProfilePeriod - 1) :
          passing' = [kind |-> "return", when_utc |-> date, value |-> is_passing(date)]
    /\ UNCHANGED <<searchVars, steppingVars, sourceVars, httpVars, sunSyncVars, solverVars,
                   smartVars, shadowVars, eclipseVars>>

VisibilityNext ==
    \/ IsPassing

VisibilitySpec == VisibilityInit /\ [][VisibilityNext]_vars

\* ----------------------------------------------------------------- shadow
\* Mean radius of the Earth, rounded to the km.
R_E_MEAN_KM == 6371

\* Scale of the sines, cosines and tangents below.
AngleScale == 100000

\* radians(0.269007205) and radians(0.264121687): the sine and the tangent of
\* either angle agree with the angle itself on this scale.
ALPHA_PEN == 470
ALPHA_UMB == 461

\* cos(ALPHA_PEN)
cos_ALPHA_PEN == 99999

\* Positions of the satellite in the plane through the Sun-Earth line, in km:
\* h along the line and positive behind the Earth, v >= 0 across it. The dot
\* product of r_sun and r is negative exactly when h > 0, and the horizontal
\* and vertical of the satellite are h and v. Only positions above the
\* surface are orbits.
Hs == {-20000, -10000, -7000, 0, 1, 3000, 7000, 10000, 20000, 30000}
Vs == {0, 3000, 6338, 6339, 6371, 6385, 6386, 6402, 6403, 6404, 6464, 6465, 7000, 20000}
Positions == {r \in [h : Hs, v : Vs] : r.h * r.h + r.v * r.v > R_E_MEAN_KM * R_E_MEAN_KM}

\* vector_norm, rounded down to the km.
vector_norm(r) ==
    CHOOSE n \in Max(Abs(r.h), r.v)..(Abs(r.h) + r.v) :
        n * n <= r.h * r.h + r.v * r.v /\ (n + 1) * (n + 1) > r.h * r.h + r.v * r.v

\* tan(ALPHA_PEN) * (r_p / sin(ALPHA_PEN) + sat_horiz)
pen_vert(sat_horiz, r_p) ==
    (ALPHA_PEN * ((r_p * AngleScale) \div ALPHA_PEN + sat_horiz)) \div AngleScale

\* tan(ALPHA_UMB) * (r_p / sin(ALPHA_UMB) - sat_horiz)
umb_vert(sat_horiz, r_p) ==
    (ALPHA_UMB * ((r_p * AngleScale) \div ALPHA_UMB - sat_horiz)) \div AngleScale

\* shadow: 2 for illuminated, 1 for penumbra, 0 for umbra.
shadow(r, r_p) ==
    IF r.h > 0
    THEN IF r.v <= pen_vert(r.h, r_p)
         THEN IF r.v <= umb_vert(r.h, r_p) THEN 0 ELSE 1
         ELSE 2
    ELSE 2

\* get_satellite_minus_penumbra_verticals
get_satellite_minus_penumbra_verticals(r, r_p) ==
    IF ~(r.h > 0)
    THEN vector_norm(r) - (r_p * AngleScale) \div cos_ALPHA_PEN
    ELSE r.v - pen_vert(r.h, r_p)

\* Both functions evaluated at r.
illumination_of(r) ==
    [kind |-> "return", shadow |-> shadow(r, R_E_MEAN_KM),
     verticals |-> get_satellite_minus_penumbra_verticals(r, R_E_MEAN_KM)]

shadowFrame ==
    <<searchVars, steppingVars, sourceVars, httpVars, sunSyncVars, solverVars, visibilityVars,
      smartVars, eclipseVars>>

\* The two functions are called for a satellite that shadow finds illuminated.
ShadowIlluminated ==
    /\ \E r \in Positions :
          /\ shadow(r, R_E_MEAN_KM) = 2
          /\ sat' = r
          /\ illum' = illumination_of(r)
    /\ UNCHANGED shadowFrame

\* The two functions are called for a satellite that shadow finds in penumbra.
ShadowPenumbra ==
    /\ \E r \in Positions :
          /\ shadow(r, R_E_MEAN_KM) = 1
          /\ sat' = r
          /\ illum' = illumination_of(r)
    /\ UNCHANGED shadowFrame

\* The two functions are called for a satellite that shadow finds in umbra.
ShadowUmbra ==
    /\ \E r \in Positions :
          /\ shadow(r, R_E_MEAN_KM) = 0
          /\ sat' = r
          /\ illum' = illumination_of(r)
    /\ UNCHANGED shadowFrame

ShadowNext ==
    \/ ShadowIlluminated
    \/ ShadowPenumbra
    \/ ShadowUmbra

ShadowSpec == SourceInit /\ [][ShadowNext]_vars

\* --------------------------------------------------------- eclipses_since
\* The orbits searched: the tick at which an eclipse starts, the duration of
\* the eclipse of every orbit (under half a period), the date the search
\* starts from and its limit.
EclipseFirsts == {0, 15, 60}
EclipseDurations == {10, 25, 40}
EclipseStarts == {0, 10, 20, 50}
EclipseLimits == {150, 250}

\* The value the illumination levels off at on the sunward side.
Plateau == 20

\* The signed illumination along the orbit: zero where an eclipse starts and
\* ends, negative inside it with one minimum at its middle, positive outside.
illumination(t) ==
    LET ph == (t - eclipse_orbit.first) % Period
        d  == eclipse_orbit.duration
    IN  IF ph <= d
        THEN IF ph <= d - ph THEN -ph ELSE -(d - ph)
        ELSE LET up   == ph - d
                 down == Period - ph
                 side == IF up <= down THEN up ELSE down
             IN  IF side <= Plateau THEN side ELSE Plateau

\* W: a third of the orbital period, rounded down to the tick.
base_search_window == Period \div 3

\* The bounded minimizer on (0, W): the offsets it can converge to are the
\* local minima of the illumination inside the window.
minimizers ==
    {x \in 1..(base_search_window - 1) :
        /\ x - 1 >= 1 => illumination(t0 + x) <= illumination(t0 + x - 1)
        /\ x + 1 <= base_search_window - 1 => illumination(t0 + x) <= illumination(t0 + x + 1)}

\* Brent's root of the illumination on the bracket (a, b) of dates: the first
\* tick at which the sign has changed.
illumination_root(a, b) ==
    CHOOSE t \in a..b :
        /\ illumination(t) * illumination(a) <= 0
        /\ \A u \in a..(t - 1) : illumination(u) * illumination(a) > 0

\* The interval yielded for the minimizer x.
eclipse_around(x) ==
    [start |-> illumination_root(t0 + x - Period \div 2, t0 + x),
     end   |-> illumination_root(t0 + x, t0 + x + Period \div 2)]

\* The cursor moved a window past the start of the eclipse yielded.
next_t0_from_start(ecl) == ecl.start + base_search_window

\* The cursor after an eclipse is yielded.
next_t0(ecl) == ecl.end + base_search_window

\* eclipses_since is called.
EclipseInit ==
    /\ SearchIdle
    /\ SteppingIdle
    /\ SourceIdle
    /\ HttpIdle
    /\ SunSyncIdle
    /\ SolverIdle
    /\ VisibilityIdle
    /\ SmartIdle
    /\ ShadowIdle
    /\ eclipse_orbit \in [first : EclipseFirsts, duration : EclipseDurations,
                           start : EclipseStarts, limit : EclipseLimits]
    /\ t0 = eclipse_orbit.start
    /\ eclipses = <<>>
    /\ ecl_pc = "loop"

eclipseFrame ==
    <<searchVars, steppingVars, sourceVars, httpVars, sunSyncVars, solverVars, visibilityVars,
      smartVars, shadowVars, eclipse_orbit>>

\* Step 2: the minimum found in the window is not negative; the cursor moves
\* on by a window.
EclipseAdvance ==
    /\ ecl_pc = "loop"
    /\ t0 < eclipse_orbit.limit
    /\ \E x \in minimizers :
          /\ illumination(t0 + x) >= 0
          /\ t0' = t0 + base_search_window
    /\ UNCHANGED <<eclipses, ecl_pc, eclipseFrame>>

\* Step 3: the minimum found is negative; the eclipse around it is yielded and
\* the cursor moves a window past its end.
EclipseYield ==
    /\ ecl_pc = "loop"
    /\ t0 < eclipse_orbit.limit
    /\ \E x \in minimizers :
          /\ illumination(t0 + x) < 0
          /\ eclipses' = Append(eclipses, eclipse_around(x))
          /\ t0' = next_t0(eclipse_around(x))
    /\ UNCHANGED <<ecl_pc, eclipseFrame>>

\* Step 4: the cursor has reached the limit.
EclipseStop ==
    /\ ecl_pc = "loop"
    /\ ~(t0 < eclipse_orbit.limit)
    /\ ecl_pc' = "done"
    /\ UNCHANGED <<t0, eclipses, eclipseFrame>>

EclipseNext ==
    \/ EclipseAdvance
    \/ EclipseYield
    \/ EclipseStop

EclipseSpec == EclipseInit /\ [][EclipseNext]_vars

\* ------------------------------------------------ KeplerianPredictor.__init__
\* The elements a caller can pass: semi-major axis in km, eccentricity in
\* thousandths, angles in tenths of a degree.
Classes == {"KeplerianPredictor", "J2Predictor"}
Smas == {-7000, 0, 7000, 42164}
EccArgs == {-100, 0, 200, 999, 1000, 1500}
RaanDegs == {0, 900}

Elements ==
    [cls : Classes, sma : Smas, ecc : EccArgs, inc : IncDegs, raan : RaanDegs, ta : TaDegs]

\* 1.0 on the scale of the eccentricities.
EccOne == 1000

\* The body of __init__, which J2Predictor inherits: an eccentricity of one or
\* more raises NotImplementedError, anything else is stored as given.
keplerian_init(el) ==
    IF el.ecc >= EccOne
    THEN [kind |-> "raise", exc |-> "NotImplementedError"]
    ELSE [kind |-> "return", cls |-> el.cls, sma |-> el.sma, ecc |-> el.ecc, inc |-> el.inc,
          raan |-> el.raan, argp |-> 0, ta |-> el.ta]

\* The constructor returns a predictor.
KeplerianNew ==
    /\ \E el \in Elements :
          /\ keplerian_init(el).kind = "return"
          /\ given' = el
          /\ predictor' = keplerian_init(el)
    /\ UNCHANGED <<searchVars, steppingVars, geometryVars, sourceVars, httpVars, solverVars>>

\* The constructor raises NotImplementedError.
KeplerianNotImplemented ==
    /\ \E el \in Elements :
          /\ keplerian_init(el).kind = "raise"
          /\ given' = el
          /\ predictor' = keplerian_init(el)
    /\ UNCHANGED <<searchVars, steppingVars, geometryVars, sourceVars, httpVars, solverVars>>

ElementsNext ==
    \/ KeplerianNew
    \/ KeplerianNotImplemented

ElementsSpec == SourceInit /\ [][ElementsNext]_vars

\* ------------------------------------------------------------------ M_to_E
\* Angles and eccentricities are in hundredths.
Scale == 100
Pi == 314

\* The turns of the while loop that the model follows.
MaxIterations == 52

\* The arguments of M_to_E: mean anomalies (rad) and eccentricities.
MeanAnomalies == {Float(m) : m \in {-300, -100, 0, 50, 100, 200, 314, 400, 600, 628}} \cup {NaN}
Eccentricities == {0, 10, 50, 90, 100}

\* sin by Bhaskara's formula on each half turn.
sin(x) ==
    LET r == x % (2 * Pi)
        half(y) == (16 * y * (Pi - y) * Scale) \div (5 * Pi * Pi - 4 * y * (Pi - y))
    IN  IF r <= Pi THEN half(r) ELSE -half(r - Pi)

cos(x) == sin(x + Pi \div 2)

\* One turn of the while loop of M_to_E on the iterate e:
\*   E_new = E + (M - E + ecc * sin(E)) / (1 - ecc * cos(E))
\*   if (E_new == E) or (abs((E_new - E) / E) < 1e-15): break
\*   else: E = E_new
\* A change of one hundredth or more is never a relative change below 1e-15,
\* so the second test only divides by E. A division by zero raises
\* ZeroDivisionError in Python and gives a value that is not finite under
\* numba: "zero" stands for both.
turn(m, ec, e) ==
    IF ~m.finite \/ ~e.finite THEN [kind |-> "continue", E_new |-> NaN]
    ELSE LET denominator == Scale - (ec * cos(e.v)) \div Scale
         IN  IF denominator = 0 THEN [kind |-> "zero", E_new |-> NaN]
             ELSE LET E_new == e.v + ((m.v - e.v + (ec * sin(e.v)) \div Scale) * Scale)
                                          \div denominator
                  IN  IF E_new = e.v THEN [kind |-> "break", E_new |-> Float(E_new)]
                      ELSE IF e.v = 0 THEN [kind |-> "zero", E_new |-> Float(E_new)]
                      ELSE [kind |-> "continue", E_new |-> Float(E_new)]

\* M_to_E(M, ecc) is called: E = M.
SolverInit ==
    /\ SearchIdle
    /\ SteppingIdle
    /\ SourceIdle
    /\ HttpIdle
    /\ SunSyncIdle
    /\ GeometryIdle
    /\ M \in MeanAnomalies
    /\ ecc \in Eccentricities
    /\ E = M
    /\ iterations = 0
    /\ solver_pc = "loop"

\* A turn that takes the else branch: E = E_new. Under numba a division by
\* zero is such a turn too.
SolverContinue ==
    /\ solver_pc = "loop"
    /\ iterations < MaxIterations
    /\ turn(M, ecc, E).kind \in {"continue", "zero"}
    /\ E' = turn(M, ecc, E).E_new
    /\ iterations' = iterations + 1
    /\ UNCHANGED <<searchVars, steppingVars, geometryVars, sourceVars, httpVars, sunSyncVars, M, ecc,
                   solver_pc>>

\* A turn that breaks: E_new is returned.
SolverBreak ==
    /\ solver_pc = "loop"
    /\ turn(M, ecc, E).kind = "break"
    /\ E' = turn(M, ecc, E).E_new
    /\ solver_pc' = "return"
    /\ UNCHANGED <<searchVars, steppingVars, geometryVars, sourceVars, httpVars, sunSyncVars, M, ecc,
                   iterations>>

\* A turn that divides by zero, in Python: ZeroDivisionError.
SolverZeroDivision ==
    /\ solver_pc = "loop"
    /\ turn(M, ecc, E).kind = "zero"
    /\ solver_pc' = "raise"
    /\ UNCHANGED <<searchVars, steppingVars, geometryVars, sourceVars, httpVars, sunSyncVars, M, ecc, E,
                   iterations>>

SolverNext ==
    \/ SolverContinue
    \/ SolverBreak
    \/ SolverZeroDivision

SolverSpec == SolverInit /\ [][SolverNext]_vars

\* ----------------------------------------------------------------- claims
\* The candidate handled by the step, when the step refined one.
Refined == last' # last
Dropped == Refined /\ ~valid(last')

\* C1: every yielded pass has aos <= max_elevation_date (tca) <= los.
C1_AosTcaLosOrdered ==
    \A i \in 1..Len(passes) :
        /\ passes[i].aos <= passes[i].max_elevation_date
        /\ passes[i].max_elevation_date <= passes[i].los

\* A pass was yielded whose aos, tca and los are three different instants.
C1_Witness ==
    \E i \in 1..Len(passes) :
        /\ passes[i].aos < passes[i].max_elevation_date
        /\ passes[i].max_elevation_date < passes[i].los

\* C2 as stated: every yielded pass peaks strictly above
\* max(max_elevation_gt, aos_at_dg) and above 0, a candidate at or below the
\* threshold is not yielded, and after a drop the search always goes on
\* from tca + 0.6 orbit.
C2_DropAlwaysContinues ==
    [][/\ \A i \in 1..Len(passes') :
             /\ passes'[i].max_elevation
                   > Radians(Max(args.max_elevation_gt, args.aos_at_dg))
             /\ passes'[i].max_elevation > 0
       /\ Dropped => /\ passes' = passes
                     /\ pc' = "loop"
                     /\ current_date' = last'.tca + orbit_step(60)]_vars

\* C2 amended: as above, but after a drop the search goes on from
\* tca + 0.6 orbit unless limit_date is set and the cursor the candidate was
\* found from is already after limit_date; then the iteration ends.
C2_DropContinuesWithinLimit ==
    [][/\ \A i \in 1..Len(passes') :
             /\ passes'[i].max_elevation
                   > Radians(Max(args.max_elevation_gt, args.aos_at_dg))
             /\ passes'[i].max_elevation > 0
       /\ Dropped =>
             /\ passes' = passes
             /\ IF limit_date # {} /\ current_date > The(limit_date)
                THEN pc' = "done"
                ELSE /\ pc' = "loop"
                     /\ current_date' = last'.tca + orbit_step(60)]_vars

\* A pass was yielded, then a candidate was dropped and the search went on
\* from tca + 0.6 orbit.
C2_Witness ==
    /\ Len(passes) >= 1
    /\ last # <<>> /\ ~valid(last)
    /\ last.tca > passes[Len(passes)].max_elevation_date
    /\ pc = "loop"
    /\ current_date = last.tca + orbit_step(60)

\* The satellite is above the pass threshold and above the horizon at the
\* start date: a qualifying pass is in progress.
InProgressAtStart ==
    /\ elevation_at(start_date) > max_elevation_gt
    /\ elevation_at(start_date) > 0

\* C3: when a pass is in progress at the start date, the first pass produced
\* is that pass: it began at or before the start date and its los is after
\* it (each within the tolerance).
C3_FirstPassIsInProgressPass ==
    (InProgressAtStart /\ Len(passes) >= 1) =>
        /\ passes[1].aos - tolerance <= start_date
        /\ start_date <= passes[1].los + tolerance

\* C4: every yielded pass has its TCA inside the window:
\* start_date <= tca < limit_date.
C4_TcaInsideWindow ==
    \A i \in 1..Len(passes) :
        /\ start_date <= passes[i].max_elevation_date
        /\ limit_date # {} => passes[i].max_elevation_date < The(limit_date)

\* C4 amended: every yielded pass has start_date <= tca and, with a
\* limit_date, aos <= limit_date; its tca may lie after limit_date, by at
\* most the 0.34 orbit of the aos bracket.
C4_TcaAfterStartAosInsideLimit ==
    \A i \in 1..Len(passes) :
        /\ start_date <= passes[i].max_elevation_date
        /\ limit_date # {} =>
              /\ passes[i].aos <= The(limit_date)
              /\ passes[i].max_elevation_date <= The(limit_date) + orbit_step(34)

\* A pass was yielded that begins inside the window and peaks after
\* limit_date.
C4_Witness ==
    /\ limit_date # {}
    /\ \E i \in 1..Len(passes) :
          /\ start_date <= passes[i].aos
          /\ passes[i].aos <= The(limit_date)
          /\ passes[i].max_elevation_date > The(limit_date)

\* C5: with a limit_date no yielded pass has its aos after limit_date; the
\* first valid pass refined with aos > limit_date ends the iteration, it is
\* not yielded and nothing is yielded after it.
C5_NoPassStartsAfterLimit ==
    [][/\ limit_date # {} =>
             \A i \in 1..Len(passes') : passes'[i].aos <= The(limit_date)
       /\ (Refined /\ valid(last') /\ limit_date # {}
              /\ The(last'.aos) > The(limit_date)) =>
             /\ pc' = "done"
             /\ passes' = passes
       /\ pc = "done" => (pc' = "done" /\ passes' = passes)]_vars

\* Passes were yielded, then a valid pass with aos after limit_date was
\* refined and the iteration ended without yielding it.
C5_Witness ==
    /\ pc = "done"
    /\ Len(passes) >= 1
    /\ last # <<>> /\ valid(last)
    /\ limit_date # {} /\ The(last.aos) > The(limit_date)
    /\ \A i \in 1..Len(passes) : passes[i].max_elevation_date # last.tca

\* C6: the passes yielded by one iterator come out in aos order: a later
\* pass never has an earlier aos than a pass yielded before it.
C6_AosNonDecreasing ==
    \A i, j \in 1..Len(passes) : i < j => passes[i].aos <= passes[j].aos

\* Two passes were yielded one after the other, the second one later.
C6_Witness ==
    /\ Len(passes) >= 2
    /\ passes[1].aos < passes[2].aos

\* C7: the aos of every yielded pass sits on the rising crossing of the
\* horizon threshold: the elevation at aos is at least aos_at and some
\* instant of [aos - tolerance, aos) lies below aos_at.
C7_AosOnRisingCrossing ==
    \A i \in 1..Len(passes) :
        /\ elevation_at(passes[i].aos) >= aos_at
        /\ \E t \in (passes[i].aos - tolerance)..(passes[i].aos - 1) :
              elevation_at(t) < aos_at

\* C8: the los of every yielded pass sits on the falling crossing of the
\* horizon threshold: the elevation at los is at least aos_at and some
\* instant of (los, los + tolerance] lies below aos_at.
C8_LosOnFallingCrossing ==
    \A i \in 1..Len(passes) :
        /\ elevation_at(passes[i].los) >= aos_at
        /\ \E t \in (passes[i].los + 1)..(passes[i].los + tolerance) :
              elevation_at(t) < aos_at

\* C9: get_next_pass returns the first pass the iterator yielded, raises
\* NotReachable exactly when the iterator ended having yielded nothing, and
\* never returns None or a pass the iterator did not yield.
C9_GetNextPassOutcome ==
    result.kind # "pending" =>
        /\ result.kind \in {"return", "raise"}
        /\ result.kind = "return" =>
              /\ pc = "yield"
              /\ Len(passes) = 1
              /\ result.value = passes[1]
        /\ (pc = "done" /\ passes = <<>>) <=>
              (result.kind = "raise" /\ result.exc = "NotReachable")

\* get_next_pass raised NotReachable: with a limit_date, candidates were
\* refined and none was yielded before the iterator ended.
C9_Witness ==
    /\ result.kind = "raise" /\ result.exc = "NotReachable"
    /\ limit_date # {}
    /\ last # <<>>
    /\ pc = "done" /\ passes = <<>>

\* None of the four probe points of the cursor has the phase looked for.
ProbeFailed ==
    IF is_ascending(current_date)
    THEN find_nearest_descending(current_date) = {}
    ELSE find_nearest_ascending(current_date) = {}

\* C10: when no probe point is ascending (or none is descending) the
\* failure is logged and the caller observes PropagationError, whichever
\* predictor backs the search.
C10_ProbeFailureIsPropagationError ==
    (pc = "error" /\ ProbeFailed) =>
        /\ error = "PropagationError"
        /\ logged = 1
        /\ result.kind = "raise" => result.exc = "PropagationError"

\* The advance in progress is searching again from a phase of the profile it
\* has already searched from: with no limit_date each turn of the loop
\* depends on the cursor only through the elevations around it, so the
\* turns made since then repeat for ever.
Cycling ==
    /\ pc = "loop"
    /\ limit_date = {}
    /\ \E c \in visited :
          /\ c < current_date
          /\ (current_date - c) % ProfilePeriod = 0

\* C11: every advance of the iterator completes after finitely many
\* elevation evaluations, whatever the profile, the tolerance and the
\* limit_date (None included): no advance ever gets into a search that
\* repeats itself.
C11_EveryAdvanceCompletes == ~Cycling

\* The first pass of the search that starts shift ticks after start_date
\* agrees with the first pass of the search from start_date.
AgreesAfterShift(shift) ==
    LET other == first_outcome(start_date + shift)
    IN  other.kind = "yield" =>
            /\ Abs(other.pass.aos - passes[1].aos) <= tolerance
            /\ Abs(other.pass.los - passes[1].los) <= tolerance

\* C12: two searches over the same profile and thresholds whose start dates
\* differ by less than the tolerance produce first passes whose aos differ
\* by at most the tolerance and whose los differ by at most the tolerance.
C12_ShiftedStartSameFirstPass ==
    Len(passes) >= 1 => \A shift \in 1..(tolerance - 1) : AgreesAfterShift(shift)

\* The outcome first_outcome computes for the start date is the one the
\* generator reaches.
FirstOutcomeMatchesGenerator ==
    LET o == first_outcome(start_date)
    IN  /\ (Len(passes) >= 1) => (o.kind = "yield" /\ o.pass = passes[1])
        /\ (passes = <<>> /\ pc = "done") => o.kind = "done"
        /\ (passes = <<>> /\ pc = "error") => o.kind = "error"

\* C13: with a limit_date L the stepping get_next_pass either returns
\* exactly the pass it returns without a limit, and that pass has los <= L,
\* or raises NotReachable; it raises only when the pass found without a
\* limit does not end by L.
C13_LimitNeverChangesThePass ==
    (next_pass.kind # "pending" /\ limit_date # {}) =>
        LET unlimited == get_next_pass_stepping(start_date, {})
        IN  \/ /\ next_pass.kind = "return"
               /\ The(next_pass.value.los) <= The(limit_date)
               /\ next_pass = unlimited
            \/ /\ next_pass.kind = "raise"
               /\ next_pass.exc = "NotReachable"
               /\ unlimited.kind = "return" =>
                     The(unlimited.value.los) > The(limit_date)

\* With a limit_date, a pass that peaks under max_elevation_gt was passed
\* over and the next one was returned.
C13_Witness ==
    /\ limit_date # {}
    /\ next_pass.kind = "return"
    /\ when_utc > start_date
    /\ The(next_pass.value.aos) >= when_utc

\* The satellite is above aos_at_dg and above max_elevation_gt at the date
\* get_next_pass is called with.
PassingAtCall ==
    /\ elevation_at(start_date) > Radians(args.aos_at_dg)
    /\ elevation_at(start_date) > Radians(args.max_elevation_gt)

\* C14: the stepping get_next_pass called while the satellite is passing
\* returns a pass with aos = when_utc and los after when_utc; and with
\* aos_at_dg >= 0 every pass it returns has aos < los and
\* aos <= max_elevation_date <= los.
C14_PassWhilePassing ==
    next_pass.kind = "return" =>
        LET p == next_pass.value
        IN  /\ PassingAtCall =>
                  /\ p.aos = {start_date}
                  /\ The(p.los) > start_date
            /\ args.aos_at_dg >= 0 =>
                  /\ The(p.aos) < The(p.los)
                  /\ p.max_elevation_date # {}
                  /\ The(p.aos) <= The(p.max_elevation_date)
                  /\ The(p.max_elevation_date) <= The(p.los)

\* get_next_pass was called while the satellite was passing and still
\* rising: the pass returned begins at the call and peaks later.
C14_Witness ==
    /\ PassingAtCall
    /\ args.aos_at_dg >= 0
    /\ next_pass.kind = "return"
    /\ next_pass.value.aos = {start_date}
    /\ The(next_pass.value.max_elevation_date) > start_date
    /\ The(next_pass.value.los) > The(next_pass.value.max_elevation_date)

\* The step is a call of get_tle.
Asked == got' # got

\* C15: MemoryTLESource._get_tle returns the lines of an entry stored for the
\* sate_id asked whose epoch is nearest to the date among that satellite's
\* entries, and raises LookupError exactly when the satellite has no entry.
C15_NearestEntryOfTheSatellite ==
    [][Asked =>
         LET out     == got'.outcome
             entries == Entries(tles[got'.sate_id])
         IN  /\ out.kind = "raise" <=> entries = {}
             /\ out.kind = "raise" => out.exc = "LookupError"
             /\ out.kind = "return" =>
                   \E c \in entries :
                       /\ c[2] = out.value.lines
                       /\ \A d \in entries :
                             c_dt(c[1], got'.date) <= c_dt(d[1], got'.date)]_vars

\* The satellite asked has two entries at different distances from the date
\* and the other satellite holds an entry right on the date, with other
\* lines; the lines of the nearer entry of the satellite asked came back.
C15_Witness ==
    /\ got.outcome.kind = "return"
    /\ \E other \in SateIds \ {got.sate_id} :
          \E o \in Entries(tles[other]) :
              /\ o[1] = got.date
              /\ o[2] # got.outcome.value.lines
    /\ \E c, d \in Entries(tles[got.sate_id]) :
          /\ c[2] = got.outcome.value.lines
          /\ d[2] # c[2]
          /\ c_dt(c[1], got.date) < c_dt(d[1], got.date)
          /\ c_dt(c[1], got.date) > 0

\* C16: the third component of the TLE returned by get_tle is the epoch the
\* selected TLE was stored with.
C16_DateIsEpochOfTheTle ==
    got.outcome.kind = "return" => got.outcome.value.date = got.outcome.entry[1]

\* C18: two position queries to one predictor for the same when_utc return
\* the same position, whatever is added to the source between them.
C18_PropagationIsPure ==
    \A p, q \in positions :
        (p.predictor = q.predictor /\ p.position.when_utc = q.position.when_utc)
            => p.position = q.position

\* The endpoint answered, with a status that is not ok.
ErrorResponse(outcome) ==
    /\ "response" \in DOMAIN outcome
    /\ outcome.response.kind = "response"
    /\ ~outcome.response.ok

\* C17: when the endpoint answers with a status that is not ok, WSTLESource
\* and NoradTLESource.from_url raise LookupError or the transport error: no
\* other kind of error, no TLE lines and no source built on the answer.
C17_ErrorStatusIsLookupError ==
    /\ ErrorResponse(fetched) =>
          fetched.kind = "raise" /\ fetched.exc \in {"LookupError", "RequestException"}
    /\ ErrorResponse(norad) =>
          norad.kind = "raise" /\ norad.exc \in {"LookupError", "RequestException"}

\* How many of alt_km, ecc and inc_deg the call supplied.
Supplied(call) ==
    Cardinality({k \in {"alt_km", "ecc", "inc_deg"} : call[k] # {}})

\* C19: sun_synchronous builds a predictor only when exactly two of alt_km,
\* ecc and inc_deg were supplied, and the predictor has every supplied value
\* as it was given; with zero, one or three of them the call raises.
C19_ExactlyTwoAndKept ==
    predictor.kind # "pending" =>
        /\ Supplied(given) # 2 => predictor.kind = "raise"
        /\ predictor.kind = "return" =>
              /\ given.alt_km # {} => predictor.sma = R_E_KM + The(given.alt_km)
              /\ given.ecc # {} => predictor.ecc = The(given.ecc)
              /\ given.inc_deg # {} => predictor.inc_deg = The(given.inc_deg)

\* C20: M_to_E makes at most 50 Newton iterations: after 50 turns of its
\* loop that did not stop it is not iterating any more, whatever M and ecc.
C20_AtMostFiftyIterations == solver_pc = "loop" => iterations < 50

\* The elevation strictly rises from a to a single maximum at p and strictly
\* falls from p to d.
SinglePeak(a, d, p) ==
    /\ a <= p /\ p <= d
    /\ \A t \in a..(p - 1) : elevation_at(t) < elevation_at(t + 1)
    /\ \A t \in p..(d - 1) : elevation_at(t) > elevation_at(t + 1)

\* The bracket the step hands to _find_tca.
Bracket == <<current_date, The(find_nearest_descending(current_date))>>

\* C24: on a bracket in which the elevation strictly rises to a single
\* maximum at p and strictly falls after it (up to the last instant
\* is_ascending reads), the TCA returned by the bisection is within one
\* tolerance of p, and it is an ascending instant.
C24_TcaWithinToleranceOfPeak ==
    [][Refined =>
          \A p \in Bracket[1]..Bracket[2] :
              SinglePeak(Bracket[1], Bracket[2] + tolerance, p) =>
                  /\ Abs(last'.tca - p) <= tolerance
                  /\ is_ascending(last'.tca)]_vars

\* The step searched for the nearest phase among the points of order, one
\* after the other, and stopped at the first with the phase looked for; a
\* cursor that was not ascending moved there.
ProbedInOrder(order) ==
    LET n == Len(probes')
        wanted(t) == IF is_ascending(current_date) THEN ~is_ascending(t) ELSE is_ascending(t)
    IN  /\ n >= 1
        /\ probes' = SubSeq(order, 1, n)
        /\ \A i \in 1..(n - 1) : ~wanted(order[i])
        /\ n < Len(order) => wanted(order[n])
        /\ (~is_ascending(current_date) /\ pc' = "loop") => current_date' = order[n]

\* C25 as stated: a search for the nearest ascending (descending) point
\* probes end, mid, (start + mid) / 2, (mid + end) / 2 of (t, t + 0.99
\* orbit) in this order and takes the first that is ascending (descending).
C25_ProbesEndMidLeftRight ==
    [][pc = "loop" =>
          LET start == current_date
              end   == start + orbit_step(99)
              mid   == midpoint(start, end)
          IN  ProbedInOrder(<<end, mid, midpoint(start, mid), midpoint(mid, end)>>)]_vars

\* C25 amended: the order is end, mid, (mid + end) / 2, (start + mid) / 2:
\* the right quarter point is probed before the left one.
C25_ProbesEndMidRightLeft ==
    [][pc = "loop" =>
          LET start == current_date
              end   == start + orbit_step(99)
              mid   == midpoint(start, end)
          IN  ProbedInOrder(<<end, mid, midpoint(mid, end), midpoint(start, mid)>>)]_vars

\* A search went past end and mid and stopped at its third probe, the point
\* half way between mid and end.
C25_Witness ==
    /\ Len(probes) = 3
    /\ error = ""
    /\ probes[2] < probes[3]
    /\ probes[3] = midpoint(probes[2], probes[1])

\* The step ends the handling of a candidate: a dropped one, or a yielded
\* one when the generator is resumed.
Handled == (pc = "loop" /\ Dropped) \/ (pc = "yield" /\ pc' # "yield")

\* C26 as stated: after a candidate at tca the cursor moves to
\* tca + 0.6 orbit and the iteration ends at once when that cursor is past
\* limit_date: no probe, refinement or yield is ever made from a cursor past
\* limit_date.
C26_AdvancedCursorPastLimitEnds ==
    [][/\ Handled =>
             /\ current_date' = last'.tca + orbit_step(60)
             /\ cursor_past_limit(current_date') => pc' = "done"
       /\ (pc = "loop" /\ cursor_past_limit(current_date)) =>
             (probes' = probes /\ last' = last /\ passes' = passes)]_vars

\* C26 amended: the limit test is made on the cursor the candidate was found
\* from, before the advance. When that cursor is not past limit_date the
\* cursor moves to tca + 0.6 orbit and the loop goes on, even if the new
\* cursor is past limit_date; the iteration then ends after the next
\* candidate found from a cursor past limit_date, or before a valid pass
\* with aos past limit_date.
C26_CursorTestedBeforeAdvance ==
    [][/\ Handled =>
             IF cursor_past_limit(current_date)
             THEN pc' = "done" /\ current_date' = current_date
             ELSE pc' = "loop" /\ current_date' = last'.tca + orbit_step(60)
       /\ (pc = "loop" /\ cursor_past_limit(current_date) /\ Refined) =>
             pc' \in {"done", "yield", "error"}
       /\ (pc = "yield" /\ cursor_past_limit(current_date)) => pc' # "loop"]_vars

\* After a yielded pass the cursor was advanced past limit_date, and a new
\* candidate was probed for and refined from it before the iteration ended.
C26_Witness ==
    /\ pc = "done"
    /\ cursor_past_limit(current_date)
    /\ Len(passes) >= 1
    /\ current_date = passes[Len(passes)].max_elevation_date + orbit_step(60)
    /\ last # <<>> /\ last.tca >= current_date
    /\ probes # <<>> /\ probes[1] = current_date + orbit_step(99)

WsCalled == fetched' # fetched

\* C30: the cache of WSTLESource holds at most one entry per sate_id; once
\* it holds the entry of a sate_id, every _get_tle for that sate_id,
\* whatever the date, is answered from the cache without a request; a call
\* that raises (a failed fetch, add_tle) leaves the cache as it was.
C30_OneEntryThenCacheOnly ==
    [][/\ \A id \in SateIds : Len(tles'[id]) <= 1
       /\ WsCalled =>
             /\ \A id \in SateIds :
                    (tles[id] # <<>> /\ fetched'.sate_id = id /\ fetched'.kind = "return") =>
                        /\ ~fetched'.requested
                        /\ fetched'.value = tles[id][1][2]
                        /\ tles' = tles
             /\ fetched'.kind = "raise" => tles' = tles]_vars

\* The lines fetched for one date answered a later call for another date,
\* from the cache.
C30_Witness ==
    /\ fetched.kind = "return"
    /\ ~fetched.requested
    /\ tles[fetched.sate_id] # <<>>
    /\ tles[fetched.sate_id][1][1] # fetched.date
    /\ fetched.value = tles[fetched.sate_id][1][2]

\* C21: every predictor that was constructed holds a positive semi-major axis
\* and an eccentricity of at least 0 and less than 1; every other input was
\* rejected by the constructor.
C21_ConstructedElementsInBounds ==
    /\ predictor.kind = "return" => (predictor.sma > 0 /\ 0 <= predictor.ecc /\ predictor.ecc < EccOne)
    /\ (predictor.kind = "raise" \/ predictor.kind = "return") =>
          ((given.sma <= 0 \/ given.ecc < 0 \/ given.ecc >= EccOne) => predictor.kind = "raise")

\* C28: is_passing answers True exactly when the satellite is above the
\* horizon of the location at the instant asked, and False whenever the
\* elevation is negative.
C28_PassingIffAboveHorizon ==
    passing.kind = "return" =>
        /\ passing.value = (elevation_at(passing.when_utc) > 0)
        /\ elevation_at(passing.when_utc) < 0 => passing.value = FALSE

\* C27: the smart predictor yields no pass that peaks at or under the greater
\* of max_elevation_gt and aos_at_dg, yields its passes in increasing time
\* order, and once it has finished has yielded exactly one pass for every
\* sampled local maximum above that threshold.
C27_SmartFiltersAndOrders ==
    /\ \A i \in 1..Len(passes) : passes[i].max_elevation > max_elevation_gt
    /\ \A i, j \in 1..Len(passes) :
          i < j => passes[i].max_elevation_date < passes[j].max_elevation_date
    /\ (pc = "done" /\ error = "") =>
          Len(passes) = Cardinality({i \in find_peaks(num_samples(The(limit_date) - start_date)) :
                                       elev_value(i) > max_elevation_gt})

\* C22: the difference of the satellite and penumbra verticals is positive
\* exactly when shadow answers 2 and negative exactly when it answers 1 or 0,
\* the boundaries included.
C22_VerticalsSignMatchesShadow ==
    illum.kind = "return" =>
        /\ (illum.verticals > 0) = (illum.shadow = 2)
        /\ (illum.verticals < 0) = (illum.shadow \in {0, 1})

\* C23: every interval eclipses_since yields starts before it ends, the
\* intervals come in non-decreasing order of their starts, and each ends at
\* least one search window (a third of the period) before the next starts.
C23_EclipsesOrderedAndSeparated ==
    /\ \A i \in 1..Len(eclipses) : eclipses[i].start < eclipses[i].end
    /\ \A i, j \in 1..Len(eclipses) : i < j => eclipses[i].start <= eclipses[j].start
    /\ \A i \in 1..(Len(eclipses) - 1) :
          eclipses[i].end <= eclipses[i + 1].start - base_search_window

\* The search has finished after yielding three eclipses, each longer than
\* the search window, the first of them under way when the search started.
C23_Witness ==
    /\ ecl_pc = "done"
    /\ Len(eclipses) = 3
    /\ eclipses[1].start < eclipse_orbit.start
    /\ \A i \in 1..3 : eclipses[i].end - eclipses[i].start > base_search_window
====
